---- MODULE Spec2Model ----
(***************************************************************************)
(* Staking API service: the delegation query handlers (list a staker's     *)
(* delegations page by page, count stakers / delegations of a finality     *)
(* provider, count by staker key, check that an address holds an active    *)
(* delegation) and the server configuration validation.                    *)
(*                                                                         *)
(* Strings that are parsed character by character (keys, addresses,        *)
(* pagination keys, hosts) are sequences of one-character strings; strings *)
(* that are only compared (timeframe, delegation state) are TLA+ strings.  *)
(***************************************************************************)
EXTENDS Integers, Sequences, FiniteSets, TLC

VARIABLES
    db,          \* the stored delegations, in the gateway's stable order
    now,         \* wall clock, Unix seconds
    live,        \* the request slots the server is serving
    pc,          \* pc[r]: where request r is in its handler
    op,          \* op[r]: the route of request r
    req,         \* req[r]: the raw query parameters of request r
    delegations, \* delegations[r]: local `delegations` of the counting handlers
    idx,         \* idx[r]: position of the range loop over delegations[r]
    countMap,    \* countMap[r]: local map staker key -> occurrences
    countSlice,  \* countSlice[r]: local slice of staker keys
    ret,         \* ret[r]: what the handler returned, (*Result, *types.Error)
    gw,          \* gw[r]: what request r did at the gateway (history)
    chain,       \* a caller paging through one staker's delegations
    cfg,         \* a ServerConfig
    cfgRet       \* what Validate returned for it

vars == <<db, now, live, pc, op, req, delegations, idx, countMap, countSlice,
          ret, gw, chain, cfg, cfgRet>>

(***************************************************************************)
(* Bounds of the model.                                                    *)
(***************************************************************************)
MaxDelegations == 3
ConcDelegations == 2
NumReqs == 2
PkHexLen == 2
PageSize == 1

Reqs == 1..NumReqs

Rep(c, n) == [i \in 1..n |-> c]

Min(a, b) == IF a <= b THEN a ELSE b

(***************************************************************************)
(* Errors: *types.Error, nil included.                                     *)
(***************************************************************************)
Nil == [status |-> 0, code |-> "", msg |-> ""]

NewErrorWithMsg(status, code, msg) == [status |-> status, code |-> code, msg |-> msg]

ErrInvalidPublicKey == NewErrorWithMsg(400, "BAD_REQUEST", "invalid public key")
ErrInvalidPaginationKey == NewErrorWithMsg(400, "BAD_REQUEST", "invalid pagination key")
ErrInvalidAddress == NewErrorWithMsg(400, "BAD_REQUEST", "invalid address")
ErrInvalidTimeframe == NewErrorWithMsg(400, "BAD_REQUEST", "invalid timeframe value")

\* what a failed gateway call can return
GatewayErrors ==
    { NewErrorWithMsg(500, "INTERNAL_SERVICE_ERROR", "upstream query failed"),
      NewErrorWithMsg(404, "NOT_FOUND", "not found") }

ValidationErrors ==
    {ErrInvalidPublicKey, ErrInvalidPaginationKey, ErrInvalidAddress, ErrInvalidTimeframe}

(***************************************************************************)
(* Results: *Result, nil included.  One field per payload type.            *)
(***************************************************************************)
NilResult == [nil |-> TRUE, kind |-> "none", count |-> 0, exist |-> FALSE,
              page |-> <<>>, next |-> <<>>]

NewResultCount(n) == [nil |-> FALSE, kind |-> "count", count |-> n, exist |-> FALSE,
                      page |-> <<>>, next |-> <<>>]

NewResultBool(b) == [nil |-> FALSE, kind |-> "bool", count |-> 0, exist |-> b,
                     page |-> <<>>, next |-> <<>>]

NewResultWithPagination(data, paginationKey) ==
    [nil |-> FALSE, kind |-> "page", count |-> 0, exist |-> FALSE,
     page |-> data, next |-> paginationKey]

\* `return nil, err`
ErrReturnPartial(err) == [result |-> NewResultCount(0), err |-> err]
ErrReturn(err) == [result |-> NilResult, err |-> err]

\* `return NewResult...(..), nil`
OkReturn(result) == [result |-> result, err |-> Nil]

NoReturn == [result |-> NilResult, err |-> Nil]

(***************************************************************************)
(* Delegation records.                                                     *)
(***************************************************************************)
DaySeconds == 86400

Unbonded == "unbonded"
States == {"active", "unbonding", Unbonded}

HexDigits == {"0", "1", "2", "3", "4", "5", "6", "7", "8", "9",
              "a", "b", "c", "d", "e", "f"}

KeyA == Rep("a", PkHexLen)
KeyB == Rep("b", PkHexLen)
StakerKeys == {KeyA, KeyB}
ProviderKeys == {KeyA}

CreatedValues == {2 * DaySeconds - 1, 2 * DaySeconds}
NowValues == {3 * DaySeconds - 1}

DelegationRecords ==
    [StakerPkHex : StakerKeys, FinalityProviderPkHex : ProviderKeys,
     State : States, CreatedAt : CreatedValues]

RECURSIVE SeqsUpTo(_, _)
SeqsUpTo(S, n) ==
    IF n = 0 THEN {<<>>}
    ELSE LET shorter == SeqsUpTo(S, n - 1)
         IN  shorter \cup {Append(s, x) : s \in {t \in shorter : Len(t) = n - 1}, x \in S}

\* the indices from i on, in order, of the records of s whose field is key
RECURSIVE SelectIdx(_, _, _, _)
SelectIdx(s, field, key, i) ==
    IF i > Len(s) THEN <<>>
    ELSE (IF s[i][field] = key THEN <<i>> ELSE <<>>) \o SelectIdx(s, field, key, i + 1)

Range(s) == {s[i] : i \in 1..Len(s)}


(***************************************************************************)
(* Request parsing (the query helpers of the handlers package).            *)
(***************************************************************************)
IsHex(s) == \A i \in 1..Len(s) : s[i] \in HexDigits

\* a hex-encoded public key of the expected length, or InvalidPublicKey
parsePublicKeyQuery(raw) ==
    IF raw = <<>> \/ Len(raw) # PkHexLen \/ ~IsHex(raw)
    THEN [err |-> ErrInvalidPublicKey, val |-> <<>>]
    ELSE [err |-> Nil, val |-> raw]

\* Pagination codec: a cursor is the number of records already delivered,
\* written in unary; the empty string is the start cursor.
EncodeCursor(n) == Rep("x", n)
IsCursor(raw) == \A i \in 1..Len(raw) : raw[i] = "x"
DecodeCursor(raw) == Len(raw)

\* an empty key, or a structurally valid cursor, or InvalidPaginationKey
parsePaginationQuery(raw) ==
    IF raw = <<>> THEN [err |-> Nil, val |-> <<>>]
    ELSE IF ~IsCursor(raw) THEN [err |-> ErrInvalidPaginationKey, val |-> <<>>]
    ELSE [err |-> Nil, val |-> raw]

\* Addresses: <<network, kind>> followed by the key; kind "t" is Taproot.
BTCNetParam == "m"
TaprootAddress(pk) == <<BTCNetParam, "t">> \o pk

parseBtcAddressQuery(raw, netParam) ==
    IF Len(raw) < 2 THEN [err |-> ErrInvalidAddress, val |-> <<>>]
    ELSE IF raw[1] # netParam \/ raw[2] # "t"
              \/ Len(raw) # PkHexLen + 2 \/ ~IsHex(SubSeq(raw, 3, Len(raw)))
    THEN [err |-> ErrInvalidAddress, val |-> <<>>]
    ELSE [err |-> Nil, val |-> raw]

GetTodayStartTimestampInSeconds == now - (now % DaySeconds)

parseTimeframeToday0(timeframe) ==
    CASE timeframe = "" -> [err |-> Nil, val |-> 0]
      [] timeframe = "today" -> [err |-> Nil, val |-> 0]
      [] OTHER -> [err |-> ErrInvalidTimeframe, val |-> 0]

parseTimeframeLenient(timeframe) ==
    CASE timeframe = "" -> [err |-> Nil, val |-> 0]
      [] timeframe = "today" -> [err |-> Nil, val |-> GetTodayStartTimestampInSeconds]
      [] OTHER -> [err |-> Nil, val |-> 0]

parseTimeframeToAfterTimestamp(timeframe) ==
    CASE timeframe = "" -> [err |-> Nil, val |-> 0]
      [] timeframe = "today" -> [err |-> Nil, val |-> GetTodayStartTimestampInSeconds]
      [] OTHER -> [err |-> ErrInvalidTimeframe, val |-> 0]

(***************************************************************************)
(* The services (gateway).  gerr is the outcome of the store query: Nil,   *)
(* or the error it failed with.                                            *)
(***************************************************************************)
\* a delegation as the service hands it out; its txid is its place in db
DelegationPublic(i) ==
    [txid |-> i, StakerPkHex |-> db[i].StakerPkHex, State |-> db[i].State]

ByStaker(pk) == SelectIdx(db, "StakerPkHex", pk, 1)

ByProvider(pk) == SelectIdx(db, "FinalityProviderPkHex", pk, 1)

StaleCursor == NewErrorWithMsg(400, "BAD_REQUEST", "stale pagination key")

\* one page of the staker's delegations and the key of the next page
DelegationsByStakerPk(stakerPk, paginationKey, gerr) ==
    LET mine  == ByStaker(stakerPk)
        start == DecodeCursor(paginationKey)
        stop  == Min(start + PageSize, Len(mine))
    IN  IF gerr # Nil THEN [delegations |-> <<>>, next |-> <<>>, err |-> gerr]
        ELSE IF start > 0 /\ start >= Len(mine)
        THEN [delegations |-> <<>>, next |-> <<>>, err |-> StaleCursor]
        ELSE [delegations |-> [k \in 1..(stop - start) |-> DelegationPublic(mine[start + k])],
              next |-> IF stop < Len(mine) THEN EncodeCursor(stop) ELSE <<>>,
              err |-> Nil]

\* every delegation of the finality provider, unpaged
DelegationsByFinalityProviderPkHex(fpPk, gerr) ==
    LET mine == ByProvider(fpPk)
    IN  IF gerr # Nil THEN [delegations |-> <<>>, err |-> gerr]
        ELSE [delegations |-> [k \in 1..Len(mine) |-> DelegationPublic(mine[k])],
              err |-> Nil]

\* the number of delegations of the staker that are not unbonded
StakerCountByStakerPk(stakerPk, gerr) ==
    LET mine == ByStaker(stakerPk)
    IN  IF gerr # Nil THEN [count |-> 0, err |-> gerr]
        ELSE [count |-> Cardinality({k \in 1..Len(mine) : db[mine[k]].State # Unbonded}),
              err |-> Nil]

QualifyingStates == {"active"}

\* whether the address holds a qualifying delegation created at or after the bound
CheckStakerHasActiveDelegationByAddress(address, afterTimestamp, gerr) ==
    IF gerr # Nil THEN [exist |-> FALSE, err |-> gerr]
    ELSE [exist |-> \E i \in 1..Len(db) :
                        /\ TaprootAddress(db[i].StakerPkHex) = address
                        /\ db[i].State \in QualifyingStates
                        /\ db[i].CreatedAt >= afterTimestamp,
          err |-> Nil]


(***************************************************************************)
(* Requests.                                                               *)
(***************************************************************************)
Ops == {"GetStakerDelegations", "GetStakerCountByFinalityProvider",
        "GetDelegationsCountByFinalityProvider", "GetStakerCountByStakerPk",
        "CheckStakerDelegationExist"}

RawKeys == {KeyA, KeyB, <<>>, Rep("a", PkHexLen + 1), Rep("z", PkHexLen)}
RawPaginationKeys == {<<>>, EncodeCursor(1), EncodeCursor(2), <<"!">>}
RawAddresses == {<<>>, TaprootAddress(KeyA), TaprootAddress(KeyB),
                 <<BTCNetParam, "s">> \o KeyA, <<"n", "t">> \o KeyA}
Timeframes == {"", "today", "Today"}

NoQuery == [pk |-> <<>>, pagination_key |-> <<>>, address |-> <<>>, timeframe |-> ""]

\* the query strings a request on route o can carry
Queries(o) ==
    CASE o = "GetStakerDelegations" ->
             {[NoQuery EXCEPT !.pk = k, !.pagination_key = p] :
                 k \in RawKeys, p \in RawPaginationKeys}
      [] o = "CheckStakerDelegationExist" ->
             {[NoQuery EXCEPT !.address = a, !.timeframe = t] :
                 a \in RawAddresses, t \in Timeframes}
      [] OTHER -> {[NoQuery EXCEPT !.pk = k] : k \in RawKeys}

\* what a request did at the gateway: the number of calls, the arguments of
\* the call, the error and the next key the gateway answered with
NoGw == [calls |-> 0, key |-> <<>>, token |-> <<>>, after |-> 0, err |-> Nil,
         next |-> <<>>]

GwCall(key, token, after, err, next) ==
    [calls |-> 1, key |-> key, token |-> token, after |-> after, err |-> err,
     next |-> next]

GatewayOutcomes == {Nil} \cup GatewayErrors

EmptyMap == [k \in {} |-> 0]

NoChain == [state |-> "off", key |-> <<>>, token |-> <<>>, pages |-> <<>>]
NoCfg == [Host |-> <<>>, Port |-> 0, WriteTimeout |-> 0, ReadTimeout |-> 0,
          IdleTimeout |-> 0]
NotValidated == [called |-> FALSE, msg |-> "", arg |-> <<>>]

InitRequests ==
    /\ pc = [r \in Reqs |-> "idle"]
    /\ op = [r \in Reqs |-> "none"]
    /\ req = [r \in Reqs |-> NoQuery]
    /\ delegations = [r \in Reqs |-> <<>>]
    /\ idx = [r \in Reqs |-> 0]
    /\ countMap = [r \in Reqs |-> EmptyMap]
    /\ countSlice = [r \in Reqs |-> <<>>]
    /\ ret = [r \in Reqs |-> NoReturn]
    /\ gw = [r \in Reqs |-> NoGw]

Init ==
    /\ db \in SeqsUpTo(DelegationRecords, MaxDelegations)
    /\ now \in NowValues
    /\ live = {1}
    /\ InitRequests
    /\ chain = NoChain
    /\ cfg = NoCfg
    /\ cfgRet = NotValidated

\* the router hands a request to its handler
Receive(r) ==
    /\ r \in live
    /\ pc[r] = "idle"
    /\ \E o \in Ops : \E q \in Queries(o) :
          /\ op' = [op EXCEPT ![r] = o]
          /\ req' = [req EXCEPT ![r] = q]
    /\ pc' = [pc EXCEPT ![r] = "recv"]
    /\ UNCHANGED <<db, now, live, delegations, idx, countMap, countSlice, ret, gw,
                   chain, cfg, cfgRet>>

\* the response is written and the request is over
Respond(r) ==
    /\ pc[r] = "done"
    /\ chain.state = "off"
    /\ pc' = [pc EXCEPT ![r] = "idle"]
    /\ op' = [op EXCEPT ![r] = "none"]
    /\ req' = [req EXCEPT ![r] = NoQuery]
    /\ delegations' = [delegations EXCEPT ![r] = <<>>]
    /\ idx' = [idx EXCEPT ![r] = 0]
    /\ countMap' = [countMap EXCEPT ![r] = EmptyMap]
    /\ countSlice' = [countSlice EXCEPT ![r] = <<>>]
    /\ ret' = [ret EXCEPT ![r] = NoReturn]
    /\ gw' = [gw EXCEPT ![r] = NoGw]
    /\ UNCHANGED <<db, now, live, chain, cfg, cfgRet>>

(***************************************************************************)
(* GetStakerDelegations                                                    *)
(***************************************************************************)
\* mutation: the pagination key is parsed before the public key
GetStakerDelegationsRunSwapped(q, gerr) ==
    LET pk == parsePublicKeyQuery(q.pk)
        pg == parsePaginationQuery(q.pagination_key)
        g  == DelegationsByStakerPk(pk.val, pg.val, gerr)
    IN  IF pg.err # Nil THEN [ret |-> ErrReturn(pg.err), gw |-> NoGw]
        ELSE IF pk.err # Nil THEN [ret |-> ErrReturn(pk.err), gw |-> NoGw]
        ELSE IF g.err # Nil
        THEN [ret |-> ErrReturn(g.err), gw |-> GwCall(pk.val, pg.val, 0, g.err, g.next)]
        ELSE [ret |-> OkReturn(NewResultWithPagination(g.delegations, g.next)),
              gw |-> GwCall(pk.val, pg.val, 0, Nil, g.next)]

\* mutation: the caller's pagination key does not reach the gateway
GetStakerDelegationsRunNoKey(q, gerr) ==
    LET pk == parsePublicKeyQuery(q.pk)
        pg == parsePaginationQuery(q.pagination_key)
        g  == DelegationsByStakerPk(pk.val, <<>>, gerr)
    IN  IF pk.err # Nil THEN [ret |-> ErrReturn(pk.err), gw |-> NoGw]
        ELSE IF pg.err # Nil THEN [ret |-> ErrReturn(pg.err), gw |-> NoGw]
        ELSE IF g.err # Nil
        THEN [ret |-> ErrReturn(g.err), gw |-> GwCall(pk.val, <<>>, 0, g.err, g.next)]
        ELSE [ret |-> OkReturn(NewResultWithPagination(g.delegations, g.next)),
              gw |-> GwCall(pk.val, <<>>, 0, Nil, g.next)]

GetStakerDelegationsRun(q, gerr) ==
    LET pk == parsePublicKeyQuery(q.pk)
        pg == parsePaginationQuery(q.pagination_key)
        g  == DelegationsByStakerPk(pk.val, pg.val, gerr)
    IN  IF pk.err # Nil THEN [ret |-> ErrReturn(pk.err), gw |-> NoGw]
        ELSE IF pg.err # Nil THEN [ret |-> ErrReturn(pg.err), gw |-> NoGw]
        ELSE IF g.err # Nil
        THEN [ret |-> ErrReturn(g.err), gw |-> GwCall(pk.val, pg.val, 0, g.err, g.next)]
        ELSE [ret |-> OkReturn(NewResultWithPagination(g.delegations, g.next)),
              gw |-> GwCall(pk.val, pg.val, 0, Nil, g.next)]

GetStakerDelegationsWith(r, gerr) ==
    /\ pc[r] = "recv"
    /\ op[r] = "GetStakerDelegations"
    /\ LET out == GetStakerDelegationsRun(req[r], gerr)
       IN  /\ ret' = [ret EXCEPT ![r] = out.ret]
           /\ gw' = [gw EXCEPT ![r] = out.gw]
    /\ pc' = [pc EXCEPT ![r] = "done"]
    /\ UNCHANGED <<db, now, live, op, req, delegations, idx, countMap, countSlice,
                   chain, cfg, cfgRet>>

GetStakerDelegations(r) == \E gerr \in GatewayOutcomes : GetStakerDelegationsWith(r, gerr)

(***************************************************************************)
(* GetStakerCountByFinalityProvider                                        *)
(***************************************************************************)
\* the request whose stack frame holds the accumulators of request r
AccOwnerShared(r) == 1
AccOwner(r) == r

\* mutations: nothing is filtered; unbonding delegations are filtered too
IsUnbondedNever(delegation) == FALSE
IsUnbondedOrUnbonding(delegation) == delegation.State \in {Unbonded, "unbonding"}
IsUnbonded(delegation) == delegation.State = Unbonded

\* countMap[key]++
MapInc(m, key) ==
    IF key \in DOMAIN m THEN [m EXCEPT ![key] = @ + 1]
    ELSE [k \in DOMAIN m \cup {key} |-> IF k = key THEN 1 ELSE m[k]]

\* parse the key, fetch the provider's delegations, make the accumulators
FetchByProvider(r) ==
    /\ pc[r] = "recv"
    /\ \E gerr \in GatewayOutcomes :
          LET pk == parsePublicKeyQuery(req[r].pk)
              g  == DelegationsByFinalityProviderPkHex(pk.val, gerr)
          IN  IF pk.err # Nil
              THEN /\ ret' = [ret EXCEPT ![r] = ErrReturn(pk.err)]
                   /\ pc' = [pc EXCEPT ![r] = "done"]
                   /\ UNCHANGED <<gw, delegations, idx, countMap, countSlice>>
              ELSE IF g.err # Nil
              THEN /\ ret' = [ret EXCEPT ![r] = ErrReturn(g.err)]
                   /\ gw' = [gw EXCEPT ![r] = GwCall(pk.val, <<>>, 0, g.err, <<>>)]
                   /\ pc' = [pc EXCEPT ![r] = "done"]
                   /\ UNCHANGED <<delegations, idx, countMap, countSlice>>
              ELSE /\ gw' = [gw EXCEPT ![r] = GwCall(pk.val, <<>>, 0, Nil, <<>>)]
                   /\ delegations' = [delegations EXCEPT ![r] = g.delegations]
                   /\ idx' = [idx EXCEPT ![r] = 1]
                   /\ countMap' = [countMap EXCEPT ![AccOwner(r)] = EmptyMap]
                   /\ countSlice' = [countSlice EXCEPT ![AccOwner(r)] = <<>>]
                   /\ pc' = [pc EXCEPT ![r] = "loop"]
                   /\ UNCHANGED ret
    /\ UNCHANGED <<db, now, live, op, req, chain, cfg, cfgRet>>

GetStakerCountByFinalityProvider_Fetch(r) ==
    /\ op[r] = "GetStakerCountByFinalityProvider"
    /\ FetchByProvider(r)

\* one iteration of `for _, delegation := range delegations`
GetStakerCountByFinalityProvider_Loop(r) ==
    /\ pc[r] = "loop"
    /\ op[r] = "GetStakerCountByFinalityProvider"
    /\ idx[r] <= Len(delegations[r])
    /\ LET delegation == delegations[r][idx[r]]
       IN  IF IsUnbonded(delegation)
           THEN UNCHANGED countMap
           ELSE countMap' = [countMap EXCEPT
                               ![AccOwner(r)] = MapInc(@, delegation.StakerPkHex)]
    /\ idx' = [idx EXCEPT ![r] = @ + 1]
    /\ UNCHANGED <<db, now, live, pc, op, req, delegations, countSlice, ret, gw,
                   chain, cfg, cfgRet>>

\* `return NewResult(len(countMap)), nil`
GetStakerCountByFinalityProvider_Return(r) ==
    /\ pc[r] = "loop"
    /\ op[r] = "GetStakerCountByFinalityProvider"
    /\ idx[r] > Len(delegations[r])
    /\ ret' = [ret EXCEPT ![r] =
                 OkReturn(NewResultCount(Cardinality(DOMAIN countMap[AccOwner(r)])))]
    /\ pc' = [pc EXCEPT ![r] = "done"]
    /\ UNCHANGED <<db, now, live, op, req, delegations, idx, countMap, countSlice,
                   gw, chain, cfg, cfgRet>>

(***************************************************************************)
(* GetDelegationsCountByFinalityProvider                                   *)
(***************************************************************************)
GetDelegationsCountByFinalityProvider_Fetch(r) ==
    /\ op[r] = "GetDelegationsCountByFinalityProvider"
    /\ FetchByProvider(r)

\* mutation: a staker key already in the slice is not appended again
AppendStakerOnce(slice, key) == IF key \in Range(slice) THEN slice ELSE Append(slice, key)
AppendStaker(slice, key) == Append(slice, key)

GetDelegationsCountByFinalityProvider_Loop(r) ==
    /\ pc[r] = "loop"
    /\ op[r] = "GetDelegationsCountByFinalityProvider"
    /\ idx[r] <= Len(delegations[r])
    /\ LET delegation == delegations[r][idx[r]]
       IN  IF IsUnbonded(delegation)
           THEN UNCHANGED countSlice
           ELSE countSlice' = [countSlice EXCEPT
                                 ![AccOwner(r)] = AppendStaker(@, delegation.StakerPkHex)]
    /\ idx' = [idx EXCEPT ![r] = @ + 1]
    /\ UNCHANGED <<db, now, live, pc, op, req, delegations, countMap, ret, gw,
                   chain, cfg, cfgRet>>

\* `return NewResult(len(countSlice)), nil`
GetDelegationsCountByFinalityProvider_Return(r) ==
    /\ pc[r] = "loop"
    /\ op[r] = "GetDelegationsCountByFinalityProvider"
    /\ idx[r] > Len(delegations[r])
    /\ ret' = [ret EXCEPT ![r] = OkReturn(NewResultCount(Len(countSlice[AccOwner(r)])))]
    /\ pc' = [pc EXCEPT ![r] = "done"]
    /\ UNCHANGED <<db, now, live, op, req, delegations, idx, countMap, countSlice,
                   gw, chain, cfg, cfgRet>>

(***************************************************************************)
(* GetStakerCountByStakerPk                                                *)
(***************************************************************************)
GetStakerCountByStakerPkRun(q, gerr) ==
    LET pk == parsePublicKeyQuery(q.pk)
        g  == StakerCountByStakerPk(pk.val, gerr)
    IN  IF pk.err # Nil THEN [ret |-> ErrReturn(pk.err), gw |-> NoGw]
        ELSE IF g.err # Nil
        THEN [ret |-> ErrReturn(g.err), gw |-> GwCall(pk.val, <<>>, 0, g.err, <<>>)]
        ELSE [ret |-> OkReturn(NewResultCount(g.count)),
              gw |-> GwCall(pk.val, <<>>, 0, Nil, <<>>)]

GetStakerCountByStakerPk(r) ==
    /\ pc[r] = "recv"
    /\ op[r] = "GetStakerCountByStakerPk"
    /\ \E gerr \in GatewayOutcomes :
          LET out == GetStakerCountByStakerPkRun(req[r], gerr)
          IN  /\ ret' = [ret EXCEPT ![r] = out.ret]
              /\ gw' = [gw EXCEPT ![r] = out.gw]
    /\ pc' = [pc EXCEPT ![r] = "done"]
    /\ UNCHANGED <<db, now, live, op, req, delegations, idx, countMap, countSlice,
                   chain, cfg, cfgRet>>

(***************************************************************************)
(* CheckStakerDelegationExist                                              *)
(***************************************************************************)
CheckStakerDelegationExistRun(q, gerr) ==
    LET address == parseBtcAddressQuery(q.address, BTCNetParam)
        after   == parseTimeframeToAfterTimestamp(q.timeframe)
        g       == CheckStakerHasActiveDelegationByAddress(address.val, after.val, gerr)
    IN  IF address.err # Nil THEN [ret |-> ErrReturn(address.err), gw |-> NoGw]
        ELSE IF after.err # Nil THEN [ret |-> ErrReturn(after.err), gw |-> NoGw]
        ELSE IF g.err # Nil
        THEN [ret |-> ErrReturn(g.err),
              gw |-> GwCall(address.val, <<>>, after.val, g.err, <<>>)]
        ELSE [ret |-> OkReturn(NewResultBool(g.exist)),
              gw |-> GwCall(address.val, <<>>, after.val, Nil, <<>>)]

CheckStakerDelegationExist(r) ==
    /\ pc[r] = "recv"
    /\ op[r] = "CheckStakerDelegationExist"
    /\ \E gerr \in GatewayOutcomes :
          LET out == CheckStakerDelegationExistRun(req[r], gerr)
          IN  /\ ret' = [ret EXCEPT ![r] = out.ret]
              /\ gw' = [gw EXCEPT ![r] = out.gw]
    /\ pc' = [pc EXCEPT ![r] = "done"]
    /\ UNCHANGED <<db, now, live, op, req, delegations, idx, countMap, countSlice,
                   chain, cfg, cfgRet>>

Handle(r) ==
    \/ GetStakerDelegations(r)
    \/ GetStakerCountByFinalityProvider_Fetch(r)
    \/ GetStakerCountByFinalityProvider_Loop(r)
    \/ GetStakerCountByFinalityProvider_Return(r)
    \/ GetDelegationsCountByFinalityProvider_Fetch(r)
    \/ GetDelegationsCountByFinalityProvider_Loop(r)
    \/ GetDelegationsCountByFinalityProvider_Return(r)
    \/ GetStakerCountByStakerPk(r)
    \/ CheckStakerDelegationExist(r)

Next == \E r \in Reqs : Receive(r) \/ Handle(r) \/ Respond(r)

Spec == Init /\ [][Next]_vars


(***************************************************************************)
(* Concurrent requests: every slot is live, over a stored collection of at *)
(* most ConcDelegations records; every request is for the same key and     *)
(* carries a well-formed query.                                            *)
(***************************************************************************)
WellFormed(o) ==
    {q \in Queries(o) :
        /\ o # "CheckStakerDelegationExist" => q.pk \in ProviderKeys
        /\ q.pagination_key = <<>>
        /\ o = "CheckStakerDelegationExist" =>
              /\ q.address \in {TaprootAddress(k) : k \in ProviderKeys}
              /\ q.timeframe = "today"}

ConcRecords ==
    {d \in DelegationRecords :
        d.State \in {"active", Unbonded} /\ \A c \in CreatedValues : d.CreatedAt >= c}

ReceiveConc(r) ==
    /\ r \in live
    /\ pc[r] = "idle"
    /\ \E o \in Ops : \E q \in WellFormed(o) :
          /\ op' = [op EXCEPT ![r] = o]
          /\ req' = [req EXCEPT ![r] = q]
    /\ pc' = [pc EXCEPT ![r] = "recv"]
    /\ UNCHANGED <<db, now, live, delegations, idx, countMap, countSlice, ret, gw,
                   chain, cfg, cfgRet>>

InitConc ==
    /\ db \in SeqsUpTo(ConcRecords, ConcDelegations)
    /\ now \in NowValues
    /\ live = Reqs
    /\ InitRequests
    /\ chain = NoChain
    /\ cfg = NoCfg
    /\ cfgRet = NotValidated

NextConc == \E r \in Reqs : ReceiveConc(r) \/ Handle(r) \/ Respond(r)

ConcSpec == InitConc /\ [][NextConc]_vars

(***************************************************************************)
(* A caller paging through the delegations of one staker: it starts with   *)
(* no pagination key and feeds back the key of each answer.                *)
(***************************************************************************)
InitChain ==
    /\ db \in SeqsUpTo(DelegationRecords, MaxDelegations)
    /\ now \in NowValues
    /\ live = {1}
    /\ InitRequests
    /\ \E k \in StakerKeys :
          chain = [state |-> "ready", key |-> k, token |-> <<>>, pages |-> <<>>]
    /\ cfg = NoCfg
    /\ cfgRet = NotValidated

ChainSend ==
    /\ chain.state = "ready"
    /\ pc[1] = "idle"
    /\ op' = [op EXCEPT ![1] = "GetStakerDelegations"]
    /\ req' = [req EXCEPT ![1] =
                 [NoQuery EXCEPT !.pk = chain.key, !.pagination_key = chain.token]]
    /\ pc' = [pc EXCEPT ![1] = "recv"]
    /\ chain' = [chain EXCEPT !.state = "waiting"]
    /\ UNCHANGED <<db, now, live, delegations, idx, countMap, countSlice, ret, gw,
                   cfg, cfgRet>>

ChainCollect ==
    /\ chain.state = "waiting"
    /\ pc[1] = "done"
    /\ IF ret[1].err # Nil
       THEN chain' = [chain EXCEPT !.state = "failed"]
       ELSE chain' = [chain EXCEPT
                        !.pages = Append(@, ret[1].result.page),
                        !.token = ret[1].result.next,
                        !.state = IF ret[1].result.next = <<>> THEN "done" ELSE "ready"]
    /\ pc' = [pc EXCEPT ![1] = "idle"]
    /\ op' = [op EXCEPT ![1] = "none"]
    /\ req' = [req EXCEPT ![1] = NoQuery]
    /\ ret' = [ret EXCEPT ![1] = NoReturn]
    /\ gw' = [gw EXCEPT ![1] = NoGw]
    /\ UNCHANGED <<db, now, live, delegations, idx, countMap, countSlice, cfg, cfgRet>>

NextChain ==
    \/ ChainSend
    \/ GetStakerDelegationsWith(1, Nil)
    \/ ChainCollect

ChainSpec == InitChain /\ [][NextChain]_vars /\ WF_vars(NextChain)


(***************************************************************************)
(* ServerConfig.Validate                                                   *)
(***************************************************************************)
Digits == <<"0", "1", "2", "3", "4", "5", "6", "7", "8", "9">>
IsDigit(c) == \E n \in 1..10 : Digits[n] = c
DigitVal(c) == (CHOOSE n \in 1..10 : Digits[n] = c) - 1

RECURSIVE DecimalValue(_)
DecimalValue(s) ==
    IF s = <<>> THEN 0
    ELSE 10 * DecimalValue(SubSeq(s, 1, Len(s) - 1)) + DigitVal(s[Len(s)])

\* the fields of s between the separators
RECURSIVE Split(_, _)
Split(s, sep) ==
    IF \A i \in 1..Len(s) : s[i] # sep THEN <<s>>
    ELSE LET at == CHOOSE i \in 1..Len(s) : s[i] = sep /\ \A j \in 1..(i - 1) : s[j] # sep
         IN  <<SubSeq(s, 1, at - 1)>> \o Split(SubSeq(s, at + 1, Len(s)), sep)

\* four decimal fields, each 0..255 and without a leading zero
IsIPv4(s) ==
    LET fields == Split(s, ".")
    IN  /\ Len(fields) = 4
        /\ \A k \in 1..4 :
              LET f == fields[k]
              IN  /\ f # <<>>
                  /\ \A i \in 1..Len(f) : IsDigit(f[i])
                  /\ Len(f) > 1 => f[1] # "0"
                  /\ Len(f) <= 3
                  /\ DecimalValue(f) <= 255

\* the number of leading hex digits of s
RECURSIVE HexRun(_)
HexRun(s) == IF s # <<>> /\ s[1] \in HexDigits THEN 1 + HexRun(Tail(s)) ELSE 0

\* the rest of an IPv6 address: i bytes are filled, ell says whether "::" was seen
RECURSIVE IsIPv6From(_, _, _)
IsIPv6From(s, i, ell) ==
    IF i >= 16 THEN s = <<>>
    ELSE LET off  == HexRun(s)
             rest == SubSeq(s, off + 1, Len(s))
         IN  IF off = 0 \/ off > 4 THEN FALSE
             ELSE IF rest # <<>> /\ rest[1] = "."
             THEN (ell \/ i = 12) /\ i + 4 <= 16 /\ IsIPv4(s)
             ELSE IF rest = <<>> THEN ell \/ i + 2 = 16
             ELSE IF rest[1] # ":" \/ Len(rest) = 1 THEN FALSE
             ELSE IF rest[2] = ":"
             THEN ~ell /\ (Len(rest) = 2 \/ IsIPv6From(SubSeq(rest, 3, Len(rest)), i + 2, TRUE))
             ELSE IsIPv6From(Tail(rest), i + 2, ell)

IsIPv6(s) ==
    IF Len(s) >= 2 /\ s[1] = ":" /\ s[2] = ":"
    THEN Len(s) = 2 \/ IsIPv6From(SubSeq(s, 3, Len(s)), 0, TRUE)
    ELSE IsIPv6From(s, 0, FALSE)

\* net.ParseIP(s) # nil: the first of '.', ':' and '%' in s decides the form
ParseIP(s) ==
    LET marks == {i \in 1..Len(s) : s[i] \in {".", ":", "%"}}
        first == CHOOSE i \in marks : \A j \in marks : i <= j
    IN  IF marks = {} THEN FALSE
        ELSE IF \E i \in marks : s[i] = "%" THEN FALSE
        ELSE IF s[first] = "." THEN IsIPv4(s)
        ELSE IsIPv6(s)

Errorf(msg, arg) == [called |-> TRUE, msg |-> msg, arg |-> arg]
ErrorNew(msg) == [called |-> TRUE, msg |-> msg, arg |-> <<>>]
NoError == [called |-> TRUE, msg |-> "", arg |-> <<>>]

\* mutation: the port check accepts 65536
ValidateWidePort(c) ==
    IF ~ParseIP(c.Host) THEN [err |-> Errorf("invalid host: %v", c.Host), cfg |-> c]
    ELSE IF c.Port < 0 \/ c.Port > 65536 THEN [err |-> ErrorNew("invalid port"), cfg |-> c]
    ELSE IF c.WriteTimeout < 0
    THEN [err |-> ErrorNew("write timeout cannot be negative"), cfg |-> c]
    ELSE IF c.ReadTimeout < 0
    THEN [err |-> ErrorNew("read timeout cannot be negative"), cfg |-> c]
    ELSE IF c.IdleTimeout < 0
    THEN [err |-> ErrorNew("idle timeout cannot be negative"), cfg |-> c]
    ELSE [err |-> NoError, cfg |-> c]

\* the error Validate returns for configuration c, and c after the call
Validate(c) ==
    IF ~ParseIP(c.Host) THEN [err |-> Errorf("invalid host: %v", c.Host), cfg |-> c]
    ELSE IF c.Port < 0 \/ c.Port > 65535 THEN [err |-> ErrorNew("invalid port"), cfg |-> c]
    ELSE IF c.WriteTimeout < 0
    THEN [err |-> ErrorNew("write timeout cannot be negative"), cfg |-> c]
    ELSE IF c.ReadTimeout < 0
    THEN [err |-> ErrorNew("read timeout cannot be negative"), cfg |-> c]
    ELSE IF c.IdleTimeout < 0
    THEN [err |-> ErrorNew("idle timeout cannot be negative"), cfg |-> c]
    ELSE [err |-> NoError, cfg |-> c]

Hosts ==
    { <<"1", "2", "7", ".", "0", ".", "0", ".", "1">>,
      <<"0", ".", "0", ".", "0", ".", "0">>,
      <<"2", "5", "6", ".", "0", ".", "0", ".", "1">>,
      <<"0", "1", ".", "2", ".", "3", ".", "4">>,
      <<"1", ".", "2", ".", "3">>,
      <<":", ":", "1">>,
      <<":", ":">>,
      <<"f", "e", "8", "0", ":", ":", "1", "%", "e">>,
      <<"1", ":", ":", "2", ":", ":", "3">>,
      <<":", ":", "f", "f", "f", "f", ":", "1", ".", "2", ".", "3", ".", "4">>,
      <<"1", ":", "2", ":", "3", ":", "4", ":", "5", ":", "6", ":", "7", ":", "8">>,
      <<"1", ":", "2", ":", "3">>,
      <<"l", "o", "c", "a", "l", "h", "o", "s", "t">>,
      <<>> }

Ports == {-1, 0, 8080, 65535, 65536}
Durations == {-1, 0, 1000000000}

InitCfg ==
    /\ db = <<>>
    /\ now \in NowValues
    /\ live = {}
    /\ InitRequests
    /\ chain = NoChain
    /\ cfg \in [Host : Hosts, Port : Ports, WriteTimeout : Durations,
                ReadTimeout : Durations, IdleTimeout : Durations]
    /\ cfgRet = NotValidated

ValidateConfig ==
    /\ LET out == Validate(cfg)
       IN  /\ cfgRet' = out.err
           /\ cfg' = out.cfg
    /\ cfgRet' # cfgRet
    /\ UNCHANGED <<db, now, live, pc, op, req, delegations, idx, countMap, countSlice,
                   ret, gw, chain>>

NextCfg == ValidateConfig

CfgSpec == InitCfg /\ [][NextCfg]_vars


(***************************************************************************)
(* Properties.                                                             *)
(***************************************************************************)
Done(r) == pc[r] = "done"
Succeeded(r) == Done(r) /\ ret[r].err = Nil

Countable(ds) == {i \in 1..Len(ds) : ds[i].State # Unbonded}
DistinctStakers(ds) == {ds[i].StakerPkHex : i \in Countable(ds)}

\* C1: GetStakerCountByFinalityProvider returns the number of distinct staker
\* keys among the fetched records that are not Unbonded, whatever their order.
C1_DistinctStakerCount ==
    \A r \in Reqs :
        (Succeeded(r) /\ op[r] = "GetStakerCountByFinalityProvider") =>
            /\ ret[r].result.kind = "count"
            /\ ret[r].result.count = Cardinality(DistinctStakers(delegations[r]))

\* a staker with two non-unbonded delegations and a staker with only
\* Unbonded ones: the count is 1
C1_Witness ==
    \E r \in Reqs :
        /\ Succeeded(r) /\ op[r] = "GetStakerCountByFinalityProvider"
        /\ LET ds == delegations[r]
           IN  /\ \E i, j \in Countable(ds) :
                     i # j /\ ds[i].StakerPkHex = ds[j].StakerPkHex
               /\ \E i \in 1..Len(ds) :
                     /\ ds[i].State = Unbonded
                     /\ ds[i].StakerPkHex \notin DistinctStakers(ds)
        /\ ret[r].result.count = 1

\* C2: GetDelegationsCountByFinalityProvider returns the number of fetched
\* records that are not Unbonded, records of one staker counted one by one.
C2_DelegationCount ==
    \A r \in Reqs :
        (Succeeded(r) /\ op[r] = "GetDelegationsCountByFinalityProvider") =>
            /\ ret[r].result.kind = "count"
            /\ ret[r].result.count = Cardinality(Countable(delegations[r]))

\* an Unbonded record first, then two countable records of one staker: 2
C2_Witness ==
    \E r \in Reqs :
        /\ Succeeded(r) /\ op[r] = "GetDelegationsCountByFinalityProvider"
        /\ LET ds == delegations[r]
           IN  /\ Len(ds) = 3
               /\ ds[1].State = Unbonded
               /\ ds[2].State # Unbonded /\ ds[3].State # Unbonded
               /\ ds[2].StakerPkHex = ds[3].StakerPkHex
        /\ ret[r].result.count = 2

\* the start of the current UTC day, computed from the clock by division
StartOfToday == (now \div DaySeconds) * DaySeconds

AddressParses(q) == parseBtcAddressQuery(q.address, BTCNetParam).err = Nil

\* C3: "" resolves to the bound 0, "today" to 00:00:00 UTC of the current
\* date, anything else to the bad-request error "invalid timeframe value";
\* on that error CheckStakerDelegationExist returns it without any lookup.
C3_TimeframeResolution ==
    /\ parseTimeframeToAfterTimestamp("") = [err |-> Nil, val |-> 0]
    /\ parseTimeframeToAfterTimestamp("today") = [err |-> Nil, val |-> StartOfToday]
    /\ \A t \in Timeframes \ {"", "today"} :
          parseTimeframeToAfterTimestamp(t) =
              [err |-> [status |-> 400, code |-> "BAD_REQUEST",
                        msg |-> "invalid timeframe value"],
               val |-> 0]
    /\ \A r \in Reqs :
          (Done(r) /\ op[r] = "CheckStakerDelegationExist" /\ AddressParses(req[r])) =>
              IF req[r].timeframe \in {"", "today"}
              THEN /\ gw[r].calls = 1
                   /\ gw[r].after = IF req[r].timeframe = "" THEN 0 ELSE StartOfToday
              ELSE /\ ret[r] = [result |-> NilResult, err |-> ErrInvalidTimeframe]
                   /\ gw[r].calls = 0

C3_Witness ==
    \E r \in Reqs :
        /\ Done(r) /\ op[r] = "CheckStakerDelegationExist"
        /\ AddressParses(req[r])
        /\ req[r].timeframe = "Today"
        /\ ret[r].err = ErrInvalidTimeframe
        /\ gw[r].calls = 0

\* C4: when the gateway call fails the handler makes no other call, returns
\* the gateway's error itself and a nil result; no result ever accompanies an
\* error, and nothing is returned before the handler is done.
C4_FailAtomically ==
    \A r \in Reqs :
        /\ gw[r].calls <= 1
        /\ ~Done(r) => ret[r] = NoReturn
        /\ (Done(r) /\ gw[r].err # Nil) =>
              /\ gw[r].calls = 1
              /\ ret[r].err = gw[r].err
              /\ ret[r].result = NilResult
        /\ (Done(r) /\ ret[r].err # Nil) => ret[r].result = NilResult
        /\ (Done(r) /\ ret[r].err = Nil) => (~ret[r].result.nil /\ gw[r].err = Nil)

C4_Witness ==
    \E r \in Reqs :
        /\ Done(r) /\ op[r] = "GetStakerCountByFinalityProvider"
        /\ gw[r].calls = 1
        /\ gw[r].err \in GatewayErrors
        /\ ret[r] = [result |-> NilResult, err |-> gw[r].err]
        /\ \E i \in 1..Len(db) :
              db[i].FinalityProviderPkHex = req[r].pk /\ db[i].State # Unbonded

\* the delegations that qualify for the existence check of an address
Qualifying(address) ==
    {i \in 1..Len(db) : /\ TaprootAddress(db[i].StakerPkHex) = address
                        /\ db[i].State \in QualifyingStates}

\* C6: the existence check answers true exactly when the address has a
\* qualifying delegation created at or after the bound of the timeframe: the
\* start of today for "today", no bound for the empty timeframe.
C6_ExistenceCheck ==
    \A r \in Reqs :
        (Succeeded(r) /\ op[r] = "CheckStakerDelegationExist") =>
            LET mine  == Qualifying(req[r].address)
                bound == IF req[r].timeframe = "today" THEN StartOfToday ELSE 0
            IN  /\ ret[r].result.kind = "bool"
                /\ ret[r].result.exist <=> \E i \in mine : db[i].CreatedAt >= bound
                /\ mine = {} => ~ret[r].result.exist
                /\ (req[r].timeframe = "" /\ mine # {}) => ret[r].result.exist

\* a qualifying delegation created yesterday and timeframe "today": false
C6_Witness ==
    \E r \in Reqs :
        /\ Succeeded(r) /\ op[r] = "CheckStakerDelegationExist"
        /\ req[r].timeframe = "today"
        /\ Qualifying(req[r].address) # {}
        /\ \A i \in Qualifying(req[r].address) : db[i].CreatedAt < StartOfToday
        /\ ~ret[r].result.exist

\* the stored collection without its Unbonded records
RECURSIVE WithoutUnbonded(_)
WithoutUnbonded(s) ==
    IF s = <<>> THEN <<>>
    ELSE (IF s[1].State = Unbonded THEN <<>> ELSE <<s[1]>>) \o WithoutUnbonded(Tail(s))

\* the three counts over a collection, with no state filter at all
PlainCount(o, key, coll) ==
    CASE o = "GetStakerCountByFinalityProvider" ->
             Cardinality({coll[i].StakerPkHex :
                             i \in {j \in 1..Len(coll) : coll[j].FinalityProviderPkHex = key}})
      [] o = "GetDelegationsCountByFinalityProvider" ->
             Cardinality({j \in 1..Len(coll) : coll[j].FinalityProviderPkHex = key})
      [] o = "GetStakerCountByStakerPk" ->
             Cardinality({j \in 1..Len(coll) : coll[j].StakerPkHex = key})

CountingOps == {"GetStakerCountByFinalityProvider",
                "GetDelegationsCountByFinalityProvider", "GetStakerCountByStakerPk"}

InputsValid(o, q) ==
    CASE o = "GetStakerDelegations" ->
             /\ parsePublicKeyQuery(q.pk).err = Nil
             /\ parsePaginationQuery(q.pagination_key).err = Nil
      [] o = "CheckStakerDelegationExist" ->
             /\ parseBtcAddressQuery(q.address, BTCNetParam).err = Nil
             /\ q.timeframe \in {"", "today"}
      [] OTHER -> parsePublicKeyQuery(q.pk).err = Nil

\* C8: the gateway is called only for requests whose inputs all parse; a
\* request with an invalid input ends with a validation error and no call;
\* GetStakerDelegations reports the public key before the pagination key.
C8_ValidateBeforeGateway ==
    \A r \in Reqs :
        /\ gw[r].calls > 0 => InputsValid(op[r], req[r])
        /\ (Done(r) /\ ~InputsValid(op[r], req[r])) =>
              /\ gw[r] = NoGw
              /\ ret[r].err \in ValidationErrors
              /\ ret[r].result = NilResult
        /\ (Done(r) /\ InputsValid(op[r], req[r])) => gw[r].calls = 1
        /\ (Done(r) /\ op[r] = "GetStakerDelegations"
               /\ parsePublicKeyQuery(req[r].pk).err # Nil) =>
              ret[r].err = ErrInvalidPublicKey

C8_Witness ==
    \E r \in Reqs :
        /\ Done(r) /\ op[r] = "GetStakerDelegations"
        /\ parsePublicKeyQuery(req[r].pk).err # Nil
        /\ parsePaginationQuery(req[r].pagination_key).err # Nil
        /\ ret[r] = [result |-> NilResult, err |-> ErrInvalidPublicKey]
        /\ gw[r].calls = 0


RECURSIVE Flatten(_)
Flatten(pages) == IF pages = <<>> THEN <<>> ELSE pages[1] \o Flatten(Tail(pages))

\* what the caller has been handed so far
Delivered == Flatten(chain.pages)

ChainPagesSound ==
    /\ chain.state # "failed"
    /\ \A i, j \in 1..Len(Delivered) : i # j => Delivered[i].txid # Delivered[j].txid
    /\ \A i \in 1..Len(Delivered) : db[Delivered[i].txid].StakerPkHex = chain.key
    /\ chain.state = "done" =>
          {Delivered[i].txid : i \in 1..Len(Delivered)}
              = {i \in 1..Len(db) : db[i].StakerPkHex = chain.key}
    /\ chain.state = "ready" => (chain.token = <<>> <=> chain.pages = <<>>)
    /\ Done(1) =>
          /\ gw[1].calls = 1
          /\ gw[1].key = req[1].pk
          /\ gw[1].token = req[1].pagination_key
          /\ ret[1].err = Nil
          /\ ret[1].result.next = gw[1].next

\* C5: paging through a staker's delegations from no pagination key, feeding
\* back each next key: no record comes twice, at the end every delegation of
\* the staker has come, the end (an empty next key) does come, and the
\* handler passes both keys through unchanged.
C5_PagingCoversOnce == []ChainPagesSound /\ <>(chain.state = "done")

\* the staker's delegations came in at least two pages
C5_Witness ==
    /\ chain.state = "done"
    /\ Len(chain.pages) >= 2
    /\ \A k \in 1..Len(chain.pages) : chain.pages[k] # <<>>
    /\ Len(Delivered) = Cardinality({i \in 1..Len(db) : db[i].StakerPkHex = chain.key})

\* what the request returns when it runs alone, given the gateway's outcome
Alone(r) ==
    LET fetched == DelegationsByFinalityProviderPkHex(req[r].pk, gw[r].err).delegations
    IN  CASE op[r] = "GetStakerDelegations" -> GetStakerDelegationsRun(req[r], gw[r].err).ret
          [] op[r] = "GetStakerCountByStakerPk" ->
                 GetStakerCountByStakerPkRun(req[r], gw[r].err).ret
          [] op[r] = "CheckStakerDelegationExist" ->
                 CheckStakerDelegationExistRun(req[r], gw[r].err).ret
          [] op[r] = "GetStakerCountByFinalityProvider" ->
                 IF gw[r].err # Nil THEN [result |-> NilResult, err |-> gw[r].err]
                 ELSE [result |-> NewResultCount(Cardinality(DistinctStakers(fetched))),
                       err |-> Nil]
          [] op[r] = "GetDelegationsCountByFinalityProvider" ->
                 IF gw[r].err # Nil THEN [result |-> NilResult, err |-> gw[r].err]
                 ELSE [result |-> NewResultCount(Cardinality(Countable(fetched))),
                       err |-> Nil]

\* a step that leaves request r where it is leaves its accumulators alone
AccumulatorsPrivate ==
    \A r \in Reqs :
        (pc'[r] = pc[r] /\ idx'[r] = idx[r]) =>
            (countMap'[r] = countMap[r] /\ countSlice'[r] = countSlice[r])

\* C9: under every interleaving each request returns what it returns alone,
\* and the accumulators of a request change only in that request's own steps.
C9_RequestsIndependent ==
    /\ [](\A r \in Reqs : Done(r) => ret[r] = Alone(r))
    /\ [][AccumulatorsPrivate]_vars

\* two requests for the same provider are both in the middle of their loops
C9_Witness ==
    /\ pc[1] = "loop" /\ pc[2] = "loop"
    /\ op[1] = "GetStakerCountByFinalityProvider"
    /\ op[2] = "GetStakerCountByFinalityProvider"
    /\ req[1].pk = req[2].pk
    /\ Len(delegations[1]) >= 2
    /\ idx[1] = 2 /\ idx[2] = 2
    /\ countMap[1] # EmptyMap /\ countMap[2] # EmptyMap

NonNegative(d) == d >= 0

\* the failing checks of a configuration, in the order of Validate
Failing(c) ==
    (IF ParseIP(c.Host) THEN <<>> ELSE <<"invalid host: %v">>)
    \o (IF c.Port \in 0..65535 THEN <<>> ELSE <<"invalid port">>)
    \o (IF NonNegative(c.WriteTimeout) THEN <<>> ELSE <<"write timeout cannot be negative">>)
    \o (IF NonNegative(c.ReadTimeout) THEN <<>> ELSE <<"read timeout cannot be negative">>)
    \o (IF NonNegative(c.IdleTimeout) THEN <<>> ELSE <<"idle timeout cannot be negative">>)

\* C10: Validate returns nil exactly when the host is an IP address, the port
\* is in 0..65535 and no timeout is negative; otherwise it returns the error
\* of the first failing check; it leaves the configuration as it was.
C10_Validate ==
    /\ [](cfgRet.called =>
            /\ cfgRet.msg = "" <=> Failing(cfg) = <<>>
            /\ Failing(cfg) # <<>> => cfgRet.msg = Failing(cfg)[1])
    /\ [][cfg' = cfg]_vars

\* host and port are both invalid: the host is reported
C10_Witness ==
    /\ cfgRet.called
    /\ Len(Failing(cfg)) >= 2
    /\ ~ParseIP(cfg.Host) /\ cfg.Port = 65536
    /\ cfgRet = [called |-> TRUE, msg |-> "invalid host: %v", arg |-> cfg.Host]

====
